---------------------------- MODULE Spec2Model ----------------------------
(***************************************************************************)
(* Market price forecasting engine of naariudyami-backend:                 *)
(*   services/ai-enhanced/price-predictor/government-scraper.ts            *)
(*   services/ai-enhanced/price-predictor/forecasting-model.ts             *)
(*                                                                         *)
(* Numbers.  JavaScript numbers are modelled by exact integer/rational     *)
(* arithmetic.  Every modelled quantity that the code rounds with          *)
(* Math.round is computed as floor(x + 1/2) of the exact real value; a     *)
(* value that can be NaN is a record [nan, v].  Math.random() is a draw    *)
(* r/1000 taken from a stream of draws; sin is a table to six decimals.    *)
(* A price (modalPrice, the prices of a history, currentPrice) need not be *)
(* whole: it is held as its multiple of 1/PriceDen.  predictedPrice,       *)
(* lowerBound and upperBound are results of Math.round and held in whole   *)
(* units.                                                                  *)
(* Dates.  A "YYYY-MM-DD" string is its day number (UTC), counted so that   *)
(* day OctoberFirst is 1 October; the process runs in UTC.  A handler      *)
(* reads the clock once, at the instant `now` it runs.                     *)
(***************************************************************************)
EXTENDS Integers, Sequences, FiniteSets, Bags, TLC

(***************************************************************************)
(* Arithmetic helpers (exact, and inside 32-bit integers).                 *)
(***************************************************************************)
Max(a, b) == IF a >= b THEN a ELSE b
Min(a, b) == IF a <= b THEN a ELSE b
Abs(a) == IF a < 0 THEN -a ELSE a

RECURSIVE SumSeq(_)
SumSeq(s) == IF s = <<>> THEN 0 ELSE Head(s) + SumSeq(Tail(s))

\* <<q, r>> with x*y = q*z + r and 0 <= r < z, for x, y >= 0 and z > 0,
\* by Horner's rule over the binary digits of y (no product is formed).
RECURSIVE MulDivMod(_, _, _)
MulDivMod(x, y, z) ==
  IF y = 0 THEN <<0, 0>>
  ELSE LET h   == MulDivMod(x, y \div 2, z)
           bit == y % 2
           r2  == 2 * h[2] + bit * (x % z)
       IN  <<2 * h[1] + bit * (x \div z) + (r2 \div z), r2 % z>>

\* floor(x*y / (z1*z2)) for x, y >= 0.
MulDivFloor(x, y, z1, z2) == MulDivMod(x, y, z1)[1] \div z2

\* ceil(x*y / (z1*z2)) for x, y >= 0.
MulDivCeil(x, y, z1, z2) ==
  LET qr == MulDivMod(x, y, z1)
      c1 == qr[1] + (IF qr[2] > 0 THEN 1 ELSE 0)
  IN  (c1 + z2 - 1) \div z2

\* Math.round(x*y / (z1*z2)) = floor(x*y/(z1*z2) + 1/2), x of either sign,
\* y >= 0, z1, z2 > 0:  floor(v + 1/2) = floor((floor(2v) + 1) / 2).
RoundMulDiv(x, y, z1, z2) ==
  LET f2 == IF x >= 0 THEN MulDivFloor(2 * x, y, z1, z2)
                      ELSE -MulDivCeil(2 * (-x), y, z1, z2)
  IN  (f2 + 1) \div 2

\* floor(sqrt(x)) for x >= 0.
RECURSIVE Isqrt(_)
Isqrt(x) ==
  IF x < 4 THEN (IF x = 0 THEN 0 ELSE 1)
  ELSE LET s == 2 * Isqrt(x \div 4)
       IN  IF (s + 1) * (s + 1) <= x THEN s + 1 ELSE s

\* ceil(sqrt(x)) for x >= 0.
Csqrt(x) == LET s == Isqrt(x) IN IF s * s = x THEN s ELSE s + 1

\* A JavaScript number that may be NaN.
Num(v) == [nan |-> FALSE, v |-> v]
NaN == [nan |-> TRUE, v |-> 0]

\* Prices are multiples of 1/PriceDen; Whole(x) is the whole number x.
PriceDen == 2
Whole(x) == PriceDen * x

\* sin(i/30 * pi) * 10^6, i >= 0 (Math.sin in getFallbackPrices and
\* generateMockHistory), from the quarter period 0..15.
SinQuarter ==
  <<0, 104528, 207912, 309017, 406737, 500000, 587785, 669131,
    743145, 809017, 866025, 913545, 951057, 978148, 994522, 1000000>>
SinMicro(i) ==
  LET j == i % 60
      k == IF j > 30 THEN j - 30 ELSE j
      q == IF k > 15 THEN 30 - k ELSE k
  IN  IF j > 30 THEN -SinQuarter[q + 1] ELSE SinQuarter[q + 1]


(***************************************************************************)
(* Inputs of the model.                                                    *)
(***************************************************************************)
\* Categories the callers ask for.  "Jewelry" is in the base-price table of
\* getFallbackPrices only, and is not lower case.
Categories == {"spices", "Jewelry"}

\* String.prototype.toLowerCase on the categories of the model.
toLowerCase(c) == IF c = "Jewelry" THEN "jewelry" ELSE c

\* Math.random(): the j-th draw (j = 0, 1, ...) of a call, in thousandths.
Streams == {"lo", "hi"}
RandDen == 1000
Draw(s, j) == IF s = "lo" THEN 0 ELSE RandDen - 1

MsPerDay == 86400000

\* Date strings: "YYYY-MM-DD" (k = "ymd"), a full ISO timestamp
\* (k = "iso", from new Date().toISOString()), or text that new Date() does
\* not parse, such as "15/03/2024" (k = "bad").
Ymd(d) == [k |-> "ymd", d |-> d, ms |-> 0]
BadDate == [k |-> "bad", d |-> 0, ms |-> 0]
IsoAt(t) == [k |-> "iso", d |-> t \div MsPerDay, ms |-> t % MsPerDay]
\* new Date(); date.setDate(date.getDate() + i); toISOString().split('T')[0]
DatePlus(t, i) == Ymd((t \div MsPerDay) + i)
\* new Date().getMonth(), 0-based: 8 is September, 9 October.
OctoberFirst == 21
getMonth(t) == IF t \div MsPerDay >= OctoberFirst THEN 9 ELSE 8

(***************************************************************************)
(* government-scraper.ts: pure parts.                                      *)
(***************************************************************************)
cacheExpiry == 3600000

\* basePrices[category.toLowerCase()] || 500, for each of the three tables.
FallbackBasePrices ==
  [c \in {"textiles", "spices", "handicrafts", "food products", "pottery",
          "jewelry", "home decor"} |->
     CASE c = "textiles" -> 2000 [] c = "spices" -> 150
       [] c = "handicrafts" -> 500 [] c = "food products" -> 100
       [] c = "pottery" -> 300 [] c = "jewelry" -> 1500
       [] c = "home decor" -> 800]
MockBasePrices ==
  [c \in {"textiles", "spices", "handicrafts", "food products", "pottery"} |->
     CASE c = "textiles" -> 2000 [] c = "spices" -> 150
       [] c = "handicrafts" -> 500 [] c = "food products" -> 100
       [] c = "pottery" -> 300]
DefaultBasePrice == 500
BasePrice(table, category) ==
  LET key == toLowerCase(category)
  IN  IF key \in DOMAIN table THEN table[key] ELSE DefaultBasePrice

\* Math.round(basePrice * (1 + variation + seasonality + trend)), the three
\* terms in units of 10^-8:  variation = (random - 0.5) * spread,
\* seasonality = sin(i/30*pi) * amp, trend = i * drift.
PriceUnit == 100000000
SyntheticPrice(base, r, i, spread8, amp2, drift8) ==
  LET f == PriceUnit + (2 * r - RandDen) * (spread8 \div (2 * RandDen))
                     + SinMicro(i) * amp2 + i * drift8
  IN  RoundMulDiv(f, base, PriceUnit, 1)

\* getFallbackPrices: 30 observations, newest first (i = 0 is today).
FallbackCount == 30
\* The variation drawn from +-20%.
getFallbackPricesWide(category, s, t) ==
  LET basePrice == BasePrice(FallbackBasePrices, category)
  IN  [j \in 1..FallbackCount |->
         [category   |-> category,
          modalPrice |-> Whole(SyntheticPrice(basePrice, Draw(s, j - 1), j - 1,
                                              40000000, 10, 200000)),
          date       |-> DatePlus(t, -(j - 1)),
          source     |-> "Simulated Data"]]
getFallbackPrices(category, s, t) ==
  LET basePrice == BasePrice(FallbackBasePrices, category)
  IN  [j \in 1..FallbackCount |->
         [category   |-> category,
          modalPrice |-> Whole(SyntheticPrice(basePrice, Draw(s, j - 1), j - 1,
                                              20000000, 10, 200000)),
          date       |-> DatePlus(t, -(j - 1)),
          source     |-> "Simulated Data"]]

\* parseFloat(x) || 0 on a raw field: a whole number, a number of halves,
\* or text that is no number.
ParseFloatOr0(raw) ==
  IF raw.k = "num" THEN Whole(raw.v)
  ELSE IF raw.k = "halves" THEN raw.v * (PriceDen \div 2) ELSE 0

\* parseAGMARKNETResponse: data.records || [], mapped; [] when the mapping
\* throws (data is null, records is no array).
parseAGMARKNETResponse(data, category, t) ==
  IF data.k # "records" THEN <<>>
  ELSE [j \in 1..Len(data.records) |->
          LET record == data.records[j]
          IN  [category   |-> category,
               modalPrice |-> ParseFloatOr0(record.Modal_Price),
               date       |-> IF record.Price_Date.k = "none"
                              THEN IsoAt(t) ELSE record.Price_Date,
               source     |-> "AGMARKNET"]]

\* new Date(a.date).getTime() - new Date(b.date).getTime(), as its sign.  An
\* unparsable date has the time NaN; the difference is NaN, which sort takes
\* for 0.
DateCompare(a, b) ==
  IF a.k = "bad" \/ b.k = "bad" THEN 0
  ELSE IF a.d # b.d THEN (IF a.d < b.d THEN -1 ELSE 1)
  ELSE IF a.ms # b.ms THEN (IF a.ms < b.ms THEN -1 ELSE 1) ELSE 0

\* Array.prototype.sort in V8, for fewer than 64 elements: the run the array
\* starts with is found (and reversed when strictly descending), then every
\* further element is put into the sorted part by binary insertion.
\* Positions are 0-based, as in the engine.
RECURSIVE SortRunEnd(_, _, _)
SortRunEnd(w, idx, descending) ==
  IF idx >= Len(w) THEN Len(w)
  ELSE LET order == DateCompare(w[idx + 1].date, w[idx].date)
       IN  IF (descending /\ order >= 0) \/ (~descending /\ order < 0) THEN idx
           ELSE SortRunEnd(w, idx + 1, descending)
RECURSIVE SortBinarySearch(_, _, _, _)
SortBinarySearch(w, pivot, left, right) ==
  IF left >= right THEN left
  ELSE LET mid == left + ((right - left) \div 2)
       IN  IF DateCompare(pivot.date, w[mid + 1].date) < 0
           THEN SortBinarySearch(w, pivot, left, mid)
           ELSE SortBinarySearch(w, pivot, mid + 1, right)
RECURSIVE SortInsertFrom(_, _)
SortInsertFrom(w, start) ==
  IF start >= Len(w) THEN w
  ELSE LET pivot == w[start + 1]
           left  == SortBinarySearch(w, pivot, 0, start)
       IN  SortInsertFrom(SubSeq(w, 1, left) \o <<pivot>> \o SubSeq(w, left + 1, start)
                            \o SubSeq(w, start + 2, Len(w)),
                          start + 1)
SortRunsAndInserts(prices) ==
  IF Len(prices) < 2 THEN prices
  ELSE LET descending == DateCompare(prices[2].date, prices[1].date) < 0
           run        == SortRunEnd(prices, 2, descending)
           w          == IF descending
                         THEN [j \in 1..Len(prices) |->
                                 IF j <= run THEN prices[run + 1 - j] ELSE prices[j]]
                         ELSE prices
       IN  SortInsertFrom(w, run)

\* Array.prototype.sort with that comparator.  When every date parses the
\* comparator is consistent and the result is that of any stable sort: an
\* element goes behind the elements that compare lower and the equal ones
\* that stood before it.  Otherwise the order is what the engine's procedure
\* leaves.
SortByDate(prices) ==
  LET n     == Len(prices)
      place == {<<1 + Cardinality({i \in 1..n :
                       LET cmp == DateCompare(prices[i].date, prices[j].date)
                       IN  cmp < 0 \/ (cmp = 0 /\ i < j)}), j>> : j \in 1..n}
  IN  IF \E j \in 1..n : prices[j].date.k = "bad"
      THEN SortRunsAndInserts(prices)
      ELSE [r \in 1..n |-> prices[(CHOOSE pl \in place : pl[1] = r)[2]]]

\* Array.prototype.slice(-days): the last `days` elements; everything for
\* days = 0 (slice(-0)); from index -days on for days < 0.
SliceLast(s, days) ==
  IF days > 0 THEN SubSeq(s, Max(1, Len(s) - days + 1), Len(s))
  ELSE SubSeq(s, Min(Len(s), -days) + 1, Len(s))

\* The recent mean taken over the values there are, the old one over 7.
TrendOfLengthMean(prices) ==
  LET n      == Len(prices)
      k      == Min(7, n)
      recent == SumSeq(SubSeq(prices, Max(1, n - 6), n))
      old    == SumSeq(SubSeq(prices, 1, k))
      diff   == 7 * recent - k * old
  IN  IF old = 0
      THEN IF recent = 0
           THEN [trend |-> "stable", changePercent |-> [k |-> "nan", c |-> 0]]
           ELSE IF recent > 0
           THEN [trend |-> "up", changePercent |-> [k |-> "inf", c |-> 0]]
           ELSE [trend |-> "down", changePercent |-> [k |-> "ninf", c |-> 0]]
      ELSE LET sd == IF old > 0 THEN diff ELSE -diff
               ao == k * Abs(old)
           IN  [trend |-> IF 100 * sd > 5 * ao THEN "up"
                          ELSE IF 100 * sd < -5 * ao THEN "down" ELSE "stable",
                changePercent |-> [k |-> "fin", c |-> RoundMulDiv(sd, 10000, ao, 1)]]

\* changePercent and trend from a price series (fetchPriceHistory lines
\* 100-107 and 113, generateMockHistory lines 214-222): the sums of the last
\* 7 and the first 7 values, each divided by 7.  changePercent is kept in
\* hundredths (Math.round(x * 100) / 100); k tells NaN and the infinities.
TrendOf(prices) ==
  LET n      == Len(prices)
      recent == SumSeq(SubSeq(prices, Max(1, n - 6), n))
      old    == SumSeq(SubSeq(prices, 1, Min(7, n)))
      diff   == recent - old
  IN  IF old = 0
      THEN IF diff = 0 THEN [trend |-> "stable", changePercent |-> [k |-> "nan", c |-> 0]]
           ELSE IF diff > 0 THEN [trend |-> "up", changePercent |-> [k |-> "inf", c |-> 0]]
           ELSE [trend |-> "down", changePercent |-> [k |-> "ninf", c |-> 0]]
      ELSE LET sd == IF old > 0 THEN diff ELSE -diff
               ao == Abs(old)
           IN  [trend |-> IF 100 * sd > 5 * ao THEN "up"
                          ELSE IF 100 * sd < -5 * ao THEN "down" ELSE "stable",
                changePercent |-> [k |-> "fin", c |-> RoundMulDiv(sd, 10000, ao, 1)]]

\* generateMockHistory: the loop runs i = days, days-1, ..., 0.
generateMockHistory(category, days, s, t) ==
  LET basePrice == BasePrice(MockBasePrices, category)
      n         == IF days >= 0 THEN days + 1 ELSE 0
      prices    == [j \in 1..n |->
                      Whole(SyntheticPrice(basePrice, Draw(s, j - 1), days - (j - 1),
                                           15000000, 8, 100000))]
      tr        == TrendOf(prices)
  IN  [dates  |-> [j \in 1..n |-> DatePlus(t, -(days - (j - 1)))],
       prices |-> prices,
       trend  |-> tr.trend,
       changePercent |-> tr.changePercent]

\* The dates taken from the sorted list before it is cut to `days`.
HistoryFromPricesUncutDates(prices, days) ==
  LET sorted       == SortByDate(prices)
      sortedPrices == SliceLast(sorted, days)
      priceValues  == [j \in 1..Len(sortedPrices) |-> sortedPrices[j].modalPrice]
      tr           == TrendOf(priceValues)
  IN  [dates  |-> [j \in 1..Len(sorted) |-> sorted[j].date],
       prices |-> priceValues,
       trend  |-> tr.trend,
       changePercent |-> tr.changePercent]

\* fetchPriceHistory lines 92-114, on a non-empty list of observations.
HistoryFromPrices(prices, days) ==
  LET sortedPrices == SliceLast(SortByDate(prices), days)
      priceValues  == [j \in 1..Len(sortedPrices) |-> sortedPrices[j].modalPrice]
      tr           == TrendOf(priceValues)
  IN  [dates  |-> [j \in 1..Len(sortedPrices) |-> sortedPrices[j].date],
       prices |-> priceValues,
       trend  |-> tr.trend,
       changePercent |-> tr.changePercent]

(***************************************************************************)
(* forecasting-model.ts: pure parts.                                       *)
(***************************************************************************)
RECURSIVE SumIdx(_, _)
\* sum of i * prices[i] over the 0-based index i (calculateTrend's sumXY).
SumIdx(prices, n) ==
  IF n = 0 THEN 0 ELSE (n - 1) * prices[n] + SumIdx(prices, n - 1)

\* calculateTrend: least squares of price against the index 0..n-1.  With
\* sumX = n(n-1)/2 and sumXX = (n-1)n(2n-1)/6 the code's
\*   slope     = (n*sumXY - sumX*sumY) / (n*sumXX - sumX*sumX)
\*   intercept = (sumY - slope*sumX) / n
\* are the fractions  6w / (n(n*n-1))  and  ((n+1)*sumY - 3w) / (n(n+1))
\* with w = 2*sumXY - (n-1)*sumY.
calculateTrend(prices) ==
  LET n     == Len(prices)
      sumY  == SumSeq(prices)
      sumXY == SumIdx(prices, n)
      w     == 2 * sumXY - (n - 1) * sumY
  IN  [slopeNum |-> 6 * w, slopeDen |-> n * (n * n - 1),
       interceptNum |-> (n + 1) * sumY - 3 * w, interceptDen |-> n * (n + 1)]

\* calculateSeasonality: per phase k = index % 7 the sum and the count of the
\* prices of that phase; the factor is (sum/count) / overallMean with
\* overallMean = sumY / n, and overallMean / overallMean for an empty phase.
cycleLength == 7
RECURSIVE PhaseSum(_, _, _)
PhaseSum(prices, k, n) ==
  IF n = 0 THEN 0
  ELSE (IF (n - 1) % cycleLength = k THEN prices[n] ELSE 0) + PhaseSum(prices, k, n - 1)
PhaseCount(n, k) == IF n > k THEN ((n - 1 - k) \div cycleLength) + 1 ELSE 0
calculateSeasonality(prices) ==
  LET n    == Len(prices)
      sumY == SumSeq(prices)
  IN  [k \in 0..(cycleLength - 1) |->
         IF PhaseCount(n, k) > 0
         THEN [sum |-> PhaseSum(prices, k, n), count |-> PhaseCount(n, k)]
         ELSE [sum |-> sumY, count |-> n]]

\* calculateVolatility: sqrt(variance), variance = sum((p - mean)^2) / n
\* = m2 / n^2 with m2 = n*sum(q^2) - (sum q)^2 for q = p - prices[0] (the
\* variance does not change when every price is shifted).
RECURSIVE SumSqShift(_, _, _)
SumSqShift(prices, c, n) ==
  IF n = 0 THEN 0 ELSE (prices[n] - c) * (prices[n] - c) + SumSqShift(prices, c, n - 1)
\* The deviation kept at 1 or more.
calculateVolatilityFloor(prices) ==
  LET n == Len(prices)
      c == prices[1]
      s == SumSeq(prices) - n * c
  IN  [m2 |-> Max(n * n * PriceDen * PriceDen, n * SumSqShift(prices, c, n) - s * s),
       n |-> n]
calculateVolatility(prices) ==
  LET n == Len(prices)
      c == prices[1]
      s == SumSeq(prices) - n * c
  IN  [m2 |-> n * SumSqShift(prices, c, n) - s * s, n |-> n]

\* The labels with the upper band starting a day early.
ConfidenceAtEarly(i) == IF i >= 30 THEN "low" ELSE IF i > 7 THEN "medium" ELSE "high"

\* The confidence label of offset i (generateForecasts lines 100-102).
ConfidenceAt(i) == IF i > 30 THEN "low" ELSE IF i > 7 THEN "medium" ELSE "high"

\* One pass of generateForecasts' loop (lines 80-110), for prices that are
\* not negative.  tr and vol are in the prices' unit 1/PriceDen.
\*   trendValue = slope*(n+i) + intercept = tn / (n(n*n-1))
\*   predictedPrice = Math.round(trendValue * seasonalValue), NaN when the
\*     overall mean is 0 (seasonalValue = 0/0)
\*   confidenceWidth = volatility * sqrt(i), its square is r4/4
\*   lowerBound = Math.max(0, Math.round(predictedPrice - confidenceWidth))
\*   upperBound = Math.round(predictedPrice + confidenceWidth)
PredictionAt(prices, tr, seas, vol, i, t) ==
  LET n    == Len(prices)
      sumY == SumSeq(prices)
      tn   == tr.slopeNum * (n + i) + (n - 1) * tr.interceptNum
      sv   == seas[(n + i) % cycleLength]
      pp   == RoundMulDiv(tn, sv.sum, (n * n - 1) * sv.count * PriceDen, sumY)
      r4   == MulDivMod(vol.m2, 4 * i, vol.n * vol.n * PriceDen * PriceDen)
      fr   == r4[1]
      cr   == r4[1] + (IF r4[2] > 0 THEN 1 ELSE 0)
  IN  IF sumY = 0
      THEN [date |-> DatePlus(t, i), predictedPrice |-> NaN,
            confidence |-> ConfidenceAt(i), lowerBound |-> NaN, upperBound |-> NaN]
      ELSE [date |-> DatePlus(t, i), predictedPrice |-> Num(pp),
            confidence |-> ConfidenceAt(i),
            lowerBound |-> Num(Max(0, pp - (Csqrt(cr) \div 2))),
            upperBound |-> Num(pp + ((Isqrt(fr) + 1) \div 2))]

\* The loop counting from 0: the first prediction is dated today.
generateForecastsFromToday(history, horizonDays, t) ==
  LET prices == history.prices
      tr     == calculateTrend(prices)
      seas   == calculateSeasonality(prices)
      vol    == calculateVolatility(prices)
  IN  [i \in 1..horizonDays |-> PredictionAt(prices, tr, seas, vol, i - 1, t)]

\* generateForecasts.
generateForecasts(history, horizonDays, t) ==
  LET prices == history.prices
      tr     == calculateTrend(prices)
      seas   == calculateSeasonality(prices)
      vol    == calculateVolatility(prices)
  IN  [i \in 1..horizonDays |-> PredictionAt(prices, tr, seas, vol, i, t)]

\* detectSeasonality: by the coefficient of variation cv = volatility / mean
\* = sqrt(m2) / sumY.  cv < 1/10 iff m2 < sumY^2 / 100 for a positive mean; a
\* mean of 0 makes cv NaN or Infinity, which is below nothing.
detectSeasonality(prices) ==
  LET n    == Len(prices)
      sumY == SumSeq(prices)
      m2   == calculateVolatility(prices).m2
      c10  == MulDivMod(Abs(sumY), Abs(sumY), 100)
      c5   == MulDivMod(Abs(sumY), Abs(sumY), 25)
  IN  IF n < 30 THEN "Insufficient data for seasonality detection"
      ELSE IF sumY < 0 THEN "Low seasonality - stable prices"
      ELSE IF sumY = 0 THEN "High seasonality - significant variation"
      ELSE IF m2 < c10[1] \/ (m2 = c10[1] /\ c10[2] > 0)
      THEN "Low seasonality - stable prices"
      ELSE IF m2 < c5[1] \/ (m2 = c5[1] /\ c5[2] > 0)
      THEN "Moderate seasonality - some variation"
      ELSE "High seasonality - significant variation"

\* An insight: its text (without the values put into it) and the values it
\* cites, changePercent (printed with toFixed(1)), a number of days, a
\* category.
NoPercent == [k |-> "none", c |-> 0]
Insight(text, percent, days, category) ==
  [text |-> text, percent |-> percent, days |-> days, category |-> category]

\* generateInsights lines 201-207.
TrendInsight(history) ==
  IF history.trend = "up"
  THEN Insight("Prices are trending upward. Consider increasing your prices gradually.",
               history.changePercent, 0, "")
  ELSE IF history.trend = "down"
  THEN Insight("Prices are trending downward. Focus on value-added features or promotions.",
               history.changePercent, 0, "")
  ELSE Insight("Prices are stable. Good time to maintain consistent pricing.",
               NoPercent, 0, "")

\* generateInsights lines 210-212: the sign of forecastChange against +-5,
\* forecastChange = (avgForecast - currentPrice) / currentPrice * 100 with
\* avgForecast = (sum of the first 7 predictions) / 7.  NaN compares false;
\* a currentPrice of 0 gives an infinity or NaN.
ForecastChange(prices, predictions) ==
  LET k   == Min(7, Len(predictions))
      nan == \E i \in 1..k : predictions[i].predictedPrice.nan
      sum == SumSeq([i \in 1..k |-> predictions[i].predictedPrice.v])
      cur == prices[Len(prices)]
      num == 100 * (PriceDen * sum - 7 * cur)
  IN  IF nan THEN "none"
      ELSE IF cur = 0
      THEN (IF sum > 0 THEN "up" ELSE IF sum < 0 THEN "down" ELSE "none")
      ELSE IF cur > 0
      THEN (IF num > 35 * cur THEN "up" ELSE IF num < -35 * cur THEN "down" ELSE "none")
      ELSE (IF num < 35 * cur THEN "up" ELSE IF num > -35 * cur THEN "down" ELSE "none")

\* The festival note put behind the closing note.
generateInsightsFestivalLast(history, predictions, category, t) ==
  LET change == ForecastChange(history.prices, predictions)
  IN  <<TrendInsight(history)>>
      \o (IF change = "up"
          THEN <<Insight("Next week's forecast shows potential 5-7% price increase. Good time to stock up on materials.",
                         NoPercent, 0, "")>>
          ELSE IF change = "down"
          THEN <<Insight("Next week's forecast shows potential price decrease. Consider promotional campaigns.",
                         NoPercent, 0, "")>>
          ELSE <<>>)
      \o <<Insight("Based on days of market data from multiple sources.",
                   NoPercent, Len(history.dates), "")>>
      \o (IF getMonth(t) \in {9, 10}
          THEN <<Insight("Festival season ahead! Demand typically increases 20-30% during this period.",
                         NoPercent, 0, category)>>
          ELSE <<>>)

\* generateInsights.
generateInsights(history, predictions, category, t) ==
  LET change == ForecastChange(history.prices, predictions)
  IN  <<TrendInsight(history)>>
      \o (IF change = "up"
          THEN <<Insight("Next week's forecast shows potential 5-7% price increase. Good time to stock up on materials.",
                         NoPercent, 0, "")>>
          ELSE IF change = "down"
          THEN <<Insight("Next week's forecast shows potential price decrease. Consider promotional campaigns.",
                         NoPercent, 0, "")>>
          ELSE <<>>)
      \o (IF getMonth(t) \in {9, 10}
          THEN <<Insight("Festival season ahead! Demand typically increases 20-30% during this period.",
                         NoPercent, 0, category)>>
          ELSE <<>>)
      \o <<Insight("Based on days of market data from multiple sources.",
                   NoPercent, Len(history.dates), "")>>

\* fallbackForecast: the base price walks up by i/1000 with +-2.5% noise.
ForecastBasePrices == MockBasePrices
\* 'medium' ending a day early.
FallbackPredictionAtEarly(currentPrice, r, i, t) ==
  LET tf == 1000 + i
      nf == 200 * RandDen + 5 * (2 * r - RandDen)
      pp == RoundMulDiv(tf * nf, currentPrice, 1000 * 200 * RandDen, 1)
  IN  [date |-> DatePlus(t, i), predictedPrice |-> Num(pp),
       confidence |-> IF i < 7 THEN "medium" ELSE "low",
       lowerBound |-> Num((18 * pp + 10) \div 20),
       upperBound |-> Num((22 * pp + 10) \div 20)]
FallbackPredictionAt(currentPrice, r, i, t) ==
  LET tf == 1000 + i
      nf == 200 * RandDen + 5 * (2 * r - RandDen)
      pp == RoundMulDiv(tf * nf, currentPrice, 1000 * 200 * RandDen, 1)
  IN  [date |-> DatePlus(t, i), predictedPrice |-> Num(pp),
       confidence |-> IF i <= 7 THEN "medium" ELSE "low",
       lowerBound |-> Num((18 * pp + 10) \div 20),
       upperBound |-> Num((22 * pp + 10) \div 20)]
fallbackForecast(category, horizonDays, s, t) ==
  LET currentPrice == BasePrice(ForecastBasePrices, category)
  IN  [predictions  |-> [i \in 1..horizonDays |->
                           FallbackPredictionAt(currentPrice, Draw(s, i - 1), i, t)],
       currentPrice |-> Whole(currentPrice),
       trend        |-> "stable",
       seasonality  |-> "Moderate",
       insights     |-> <<Insight("Using simulated data for forecasting.",
                                  NoPercent, 0, ""),
                          Insight("Connect real data sources for more accurate predictions.",
                                  NoPercent, 0, ""),
                          Insight("Consider current market conditions in your area.",
                                  NoPercent, 0, "")>>,
       path         |-> "fallback"]

(***************************************************************************)
(* The upstream source and the callers.                                    *)
(***************************************************************************)
RawNum(v) == [k |-> "num", v |-> v]
RawHalves(h) == [k |-> "halves", v |-> h]
RawText == [k |-> "text", v |-> 0]
RawRecord(price, day) == [Modal_Price |-> price, Price_Date |-> Ymd(day)]
RawBadDate(price) == [Modal_Price |-> price, Price_Date |-> BadDate]
RawUndated(price) == [Modal_Price |-> price, Price_Date |-> [k |-> "none", d |-> 0, ms |-> 0]]

\* JSON bodies of an OK response.
BodyNull == [k |-> "null", records |-> <<>>]
BodyEmpty == [k |-> "records", records |-> <<>>]
BodyShort ==
  [k |-> "records",
   records |-> <<RawRecord(RawNum(30), 18), RawRecord(RawText, 16), RawRecord(RawNum(20), 17)>>]
BodyBrief ==
  [k |-> "records",
   records |-> <<RawRecord(RawNum(44), 19), RawUndated(RawNum(40))>>]
BodyFalling ==
  [k |-> "records",
   records |-> [j \in 1..7 |-> RawRecord(RawNum(100 * (j - 1)), 20 - j)]]
BodyZero ==
  [k |-> "records", records |-> [j \in 1..7 |-> RawRecord(RawText, 10 + j)]]
BodyRising ==
  [k |-> "records",
   records |-> <<RawRecord(RawNum(40), 11), RawRecord(RawNum(42), 12),
                 RawRecord(RawNum(41), 13), RawRecord(RawNum(45), 14),
                 RawRecord(RawNum(44), 15), RawRecord(RawNum(47), 16),
                 RawRecord(RawNum(48), 17), RawRecord(RawNum(52), 18)>>]
\* 90 daily records, newest first: a constant price of 100, and the linear
\* ramp from 100 to 150 in units of 1/89 (8900, 8950, ..., 13350).  7 daily
\* records of the price 100.5.
BodyFlat ==
  [k |-> "records", records |-> [j \in 1..90 |-> RawRecord(RawNum(100), 20 - j)]]
BodyRamp ==
  [k |-> "records",
   records |-> [j \in 1..90 |-> RawRecord(RawNum(8900 + 50 * (90 - j)), 20 - j)]]
\* 3 records: one of them with a date that does not parse and a negative
\* price.
BodyDirty ==
  [k |-> "records",
   records |-> <<RawRecord(RawNum(30), 18), RawBadDate(RawNum(-5)), RawRecord(RawNum(20), 17)>>]
\* 8 daily records, oldest first, climbing by 4 a day from 40 to 68.
BodyClimb ==
  [k |-> "records", records |-> [j \in 1..8 |-> RawRecord(RawNum(36 + 4 * j), 10 + j)]]
BodyHalf ==
  [k |-> "records", records |-> [j \in 1..7 |-> RawRecord(RawHalves(201), 20 - j)]]

\* What a request to the upstream ends in: fetch rejects, the status is not
\* OK, response.json() rejects, or a body arrives.
Failures == {[k |-> "neterr", data |-> BodyNull], [k |-> "notok", data |-> BodyNull],
             [k |-> "badjson", data |-> BodyNull]}
Ok(body) == [k |-> "ok", data |-> body]

\* The clock: 23:00 of day 20 (30 September), and 1 ms less than an hour and
\* an hour later (1 October).
T0 == 21 * MsPerDay - cacheExpiry
Times == {T0, T0 + cacheExpiry - 1, T0 + cacheExpiry}

\* forecastPrices asks for 90 days of history.
HistoryDays == 90
\* predictPrice asks for a forecast of 7 days; the price of the stored product.
PredictHorizon == 7
ProductPrice == 100
MaxHorizon == 31
MaxInflight == 2

\* A scenario is fixed for a behaviour: the categories and operations the
\* callers use, their arguments, the bodies the upstream may serve and how
\* many requests may be in flight.
Cases ==
  {[days |-> -1, horizon |-> -1, feed |-> BodyShort, ops |-> {"history", "forecast"}],
   [days |-> 0, horizon |-> 0, feed |-> BodyRising, ops |-> {"history", "forecast"}],
   [days |-> 2, horizon |-> 1, feed |-> BodyShort, ops |-> {"history", "forecast"}],
   [days |-> 1, horizon |-> 8, feed |-> BodyShort, ops |-> {"history", "forecast"}],
   [days |-> 7, horizon |-> 8, feed |-> BodyFalling, ops |-> {"history", "forecast"}],
   [days |-> 7, horizon |-> 8, feed |-> BodyZero, ops |-> {"history", "forecast"}],
   [days |-> 7, horizon |-> 8, feed |-> BodyRising, ops |-> {"history", "forecast"}],
   [days |-> 3, horizon |-> MaxHorizon, feed |-> BodyRising,
    ops |-> {"history", "forecast"}],
   [days |-> 30, horizon |-> 7, feed |-> BodyFlat, ops |-> {"history", "forecast"}],
   [days |-> 30, horizon |-> 7, feed |-> BodyHalf, ops |-> {"history", "forecast"}],
   [days |-> 7, horizon |-> 7, feed |-> BodyClimb, ops |-> {"history", "forecast"}],
   [days |-> 90, horizon |-> 7, feed |-> BodyRamp, ops |-> {"history"}],
   [days |-> 3, horizon |-> 1, feed |-> BodyDirty, ops |-> {"history"}],
   [days |-> 7, horizon |-> PredictHorizon, feed |-> BodyClimb, ops |-> {"predict"}]}
Sequential ==
  {[cats |-> {c}, ops |-> a.ops, days |-> a.days,
    horizon |-> a.horizon, bodies |-> {a.feed, BodyEmpty, BodyNull}, slots |-> 1] :
     c \in Categories, a \in Cases}
Concurrent ==
  {[cats |-> {"spices"}, ops |-> {"history"}, days |-> 2, horizon |-> 1,
    bodies |-> {BodyShort, BodyBrief, BodyEmpty}, slots |-> MaxInflight],
   [cats |-> Categories, ops |-> {"history"}, days |-> 2, horizon |-> 1,
    bodies |-> {BodyShort}, slots |-> MaxInflight]}
Scenarios == Sequential \cup Concurrent

Configs == {[enabled |-> TRUE, apiKey |-> TRUE], [enabled |-> TRUE, apiKey |-> FALSE],
            [enabled |-> FALSE, apiKey |-> TRUE]}

(***************************************************************************)
(* Tabulation.  The functions above are evaluated once over the inputs of  *)
(* the model (TLC evaluates a constant definition once); the actions read  *)
(* the tables.                                                             *)
(***************************************************************************)
AllBodies == UNION {sc.bodies : sc \in Scenarios}
DaysUsed == {sc.days : sc \in Scenarios} \cup {HistoryDays}
Horizons == {sc.horizon : sc \in Scenarios}

FallbackPricesTable ==
  [category \in Categories, s \in Streams, t \in Times |->
     getFallbackPrices(category, s, t)]
FallbackPrices(category, s, t) == FallbackPricesTable[category, s, t]

MockHistoryTable ==
  [category \in Categories, days \in DaysUsed, s \in Streams, t \in Times |->
     generateMockHistory(category, days, s, t)]
MockHistory(category, days, s, t) == MockHistoryTable[category, days, s, t]

ParsedTable ==
  [data \in AllBodies, category \in Categories, t \in Times |->
     parseAGMARKNETResponse(data, category, t)]
Parsed(data, category, t) == ParsedTable[data, category, t]

ObservationLists ==
  {ParsedTable[data, category, t] :
     data \in AllBodies, category \in Categories, t \in Times}
    \cup {FallbackPricesTable[category, s, t] :
            category \in Categories, s \in Streams, t \in Times}
SortedTable == [prices \in ObservationLists |-> SortByDate(prices)]
SortedLists == {SortedTable[prices] : prices \in ObservationLists}
Sorted(prices) ==
  IF prices \in ObservationLists THEN SortedTable[prices] ELSE prices

HistoryTable ==
  [prices \in ObservationLists \cup SortedLists, days \in DaysUsed |->
     HistoryFromPrices(prices, days)]
PriceHistoryOf(prices, days) == HistoryTable[prices, days]

\* The histories forecastPrices can get: of the bodies served to callers of
\* forecastPrices, of the fallback prices and of generateMockHistory.
ForecastBodies == UNION {sc.bodies : sc \in {x \in Scenarios : "forecast" \in x.ops}}
ForecastLists ==
  {ParsedTable[data, category, t] :
     data \in ForecastBodies, category \in Categories, t \in Times}
    \cup {FallbackPricesTable[category, s, t] :
            category \in Categories, s \in Streams, t \in Times}
ForecastInputs ==
  {h \in {HistoryTable[prices, HistoryDays] :
             prices \in ForecastLists \cup {SortedTable[p] : p \in ForecastLists}}
           \cup {MockHistoryTable[category, HistoryDays, s, t] :
                   category \in Categories, s \in Streams, t \in Times} :
     Len(h.prices) >= 7}
ForecastsTable ==
  [history \in ForecastInputs, horizonDays \in Horizons, t \in Times |->
     generateForecasts(history, horizonDays, t)]
Forecasts(history, horizonDays, t) == ForecastsTable[history, horizonDays, t]

SeasonalityTable == [history \in ForecastInputs |-> detectSeasonality(history.prices)]
Seasonality(history) == SeasonalityTable[history]

FallbackForecastTable ==
  [category \in Categories, horizonDays \in Horizons, s \in Streams, t \in Times |->
     fallbackForecast(category, horizonDays, s, t)]
FallbackForecast(category, horizonDays, s, t) ==
  FallbackForecastTable[category, horizonDays, s, t]

(***************************************************************************)
(* State.                                                                  *)
(***************************************************************************)
VARIABLES
  now,      \* Date.now(), in ms
  config,   \* aiConfig.pricePrediction.governmentAPIs.agmarknet
  scn,      \* the scenario of this behaviour
  cache,    \* GovernmentPriceScraper.cache, by category
  pending,  \* calls awaiting the upstream's response (a bag)
  last,     \* the call that returned last, and what it returned
  warm,     \* by category, the last fetchPriceHistory served from the cache
  product,  \* the product document as the database holds it
  res       \* the response predictPrice sent last

vars == <<now, config, scn, cache, pending, last, warm, product, res>>

NoEntry == [present |-> FALSE, data |-> <<>>, timestamp |-> 0]
NoHistory == [dates |-> <<>>, prices |-> <<>>, trend |-> "stable",
              changePercent |-> [k |-> "nan", c |-> 0]]
NoForecast == [predictions |-> <<>>, currentPrice |-> 0, trend |-> "stable",
               seasonality |-> "", insights |-> <<>>, path |-> "none"]
NoReturn == [op |-> "none", category |-> "", arg |-> 0, at |-> 0, src |-> "none",
             outcome |-> "none", body |-> BodyNull, cachedAt |-> 0,
             observations |-> <<>>, threw |-> FALSE,
             history |-> NoHistory, forecast |-> NoForecast]

\* No fetchPriceHistory was served from the cache yet.  `fresh` holds while
\* the entry that served the call has not been replaced, `hits` counts the
\* calls that entry served (2 stands for two or more).
NoServe == [valid |-> FALSE, fresh |-> FALSE, hits |-> 0, payload |-> <<>>,
            cachedAt |-> 0, dates |-> <<>>, prices |-> <<>>]

\* The stored product before any prediction, and no response sent yet.
NoPrice == [nan |-> FALSE, v |-> 0]
NewProduct == [price |-> ProductPrice, predicted |-> FALSE, predictedPrice |-> NoPrice]
NoResponse == [status |-> 0, branch |-> "none", predictedPrice |-> NoPrice]

\* A function's completion: a value, or an exception leaving it.
Returned(v) == [threw |-> FALSE, val |-> v]
Thrown == [threw |-> TRUE, val |-> <<>>]

Init ==
  /\ now = T0
  /\ config \in Configs
  /\ scn \in Scenarios
  /\ cache = [c \in Categories |-> NoEntry]
  /\ pending = EmptyBag
  /\ last = NoReturn
  /\ warm = [c \in Categories |-> NoServe]
  /\ product = NewProduct
  /\ res = NoResponse

\* The entry still served when it is exactly cacheExpiry old.
getFromCacheInclusive(c) ==
  IF cache[c].present /\ now - cache[c].timestamp <= cacheExpiry
  THEN [hit |-> TRUE, data |-> cache[c].data, timestamp |-> cache[c].timestamp]
  ELSE [hit |-> FALSE, data |-> <<>>, timestamp |-> 0]

\* An entry counted a hit only when it holds observations.
getFromCacheNonEmpty(c) ==
  IF cache[c].present /\ cache[c].data # <<>> /\ now - cache[c].timestamp < cacheExpiry
  THEN [hit |-> TRUE, data |-> cache[c].data, timestamp |-> cache[c].timestamp]
  ELSE [hit |-> FALSE, data |-> <<>>, timestamp |-> 0]

\* getFromCache: the entry, while it is younger than cacheExpiry.
getFromCache(c) ==
  IF cache[c].present /\ now - cache[c].timestamp < cacheExpiry
  THEN [hit |-> TRUE, data |-> cache[c].data, timestamp |-> cache[c].timestamp]
  ELSE [hit |-> FALSE, data |-> <<>>, timestamp |-> 0]

\* One entry shared by every category.
saveToCacheShared(c, data) ==
  [k \in Categories |-> [present |-> TRUE, data |-> data, timestamp |-> now]]
\* The entry kept while it is still served: the first response wins.
saveToCacheIfAbsent(c, data) ==
  IF cache[c].present /\ now - cache[c].timestamp < cacheExpiry THEN cache
  ELSE [cache EXCEPT ![c] = [present |-> TRUE, data |-> data, timestamp |-> now]]
\* saveToCache.
saveToCache(c, data) ==
  [cache EXCEPT ![c] = [present |-> TRUE, data |-> data, timestamp |-> now]]

\* fetchAGMARKNETPrices lines 37 and 46: the source is enabled and has a key.
Configured == config.enabled /\ config.apiKey

\* fetchAGMARKNETPrices lines 62-74, once the request has ended in `outcome`.
fetchAGMARKNETPricesTry(outcome, category, t) ==
  IF outcome.k = "ok"
  THEN Returned(Parsed(outcome.data, category, t))
  ELSE Thrown
\* fetchAGMARKNETPrices lines 75-78.
fetchAGMARKNETPricesCatch(r, category, s, t) ==
  IF r.threw THEN Returned(FallbackPrices(category, s, t)) ELSE r

\* The synthetic history taken for every list shorter than 7.
fetchPriceHistoryTryFloor(pr, category, days, s, t) ==
  IF pr.threw THEN Thrown
  ELSE IF Len(pr.val) < 7 THEN Returned(MockHistory(category, days, s, t))
  ELSE Returned(PriceHistoryOf(pr.val, days))

\* Whatever the call returns is stored, the fallback's observations too.
fetchAGMARKNETPricesStoreAlways(r, pr, category) == saveToCache(category, pr.val)
\* fetchAGMARKNETPrices line 73: the parsed observations are stored; an
\* exception before that line leaves the cache as it is.
fetchAGMARKNETPricesStore(r, pr, category) ==
  IF r.threw THEN cache ELSE saveToCache(category, pr.val)

\* fetchPriceHistory lines 85-114, given how fetchAGMARKNETPrices ended.
fetchPriceHistoryTry(pr, category, days, s, t) ==
  IF pr.threw THEN Thrown
  ELSE IF Len(pr.val) = 0 THEN Returned(MockHistory(category, days, s, t))
  ELSE Returned(PriceHistoryOf(pr.val, days))
\* fetchPriceHistory lines 115-118.
fetchPriceHistoryCatch(r, category, days, s, t) ==
  IF r.threw THEN Returned(MockHistory(category, days, s, t)) ELSE r

\* forecastPrices lines 36-50: the result put together from the history,
\* the predictions and the current price.
ForecastResult(history, predictions, currentPrice, category, t) ==
  [predictions  |-> predictions,
   currentPrice |-> currentPrice,
   trend        |-> history.trend,
   seasonality  |-> Seasonality(history),
   insights     |-> generateInsights(history, predictions, category, t),
   path         |-> "primary"]
\* currentPrice taken from the start of the history.
forecastPricesTryFirst(hr, category, horizonDays, t) ==
  IF hr.threw THEN Thrown
  ELSE IF Len(hr.val.prices) < 7 THEN Thrown
  ELSE Returned(ForecastResult(hr.val, Forecasts(hr.val, horizonDays, t),
                               hr.val.prices[1], category, t))
\* forecastPrices lines 27-51, given how fetchPriceHistory ended.
forecastPricesTry(hr, category, horizonDays, t) ==
  IF hr.threw THEN Thrown
  ELSE IF Len(hr.val.prices) < 7 THEN Thrown
  ELSE Returned(ForecastResult(hr.val, Forecasts(hr.val, horizonDays, t),
                               hr.val.prices[Len(hr.val.prices)], category, t))
\* The catch block passing the exception on.
forecastPricesCatchRethrow(r, category, horizonDays, s, t) == r

\* forecastPrices lines 52-55.
forecastPricesCatch(r, category, horizonDays, s, t) ==
  IF r.threw THEN Returned(FallbackForecast(category, horizonDays, s, t)) ELSE r

\* predictPrice lines 234-239: Math.round of the sum of the first 7
\* predictions over 7.
EnhancedPrice(predictions) ==
  LET k == Min(7, Len(predictions))
  IN  IF \E i \in 1..k : predictions[i].predictedPrice.nan THEN NaN
      ELSE Num((2 * SumSeq([i \in 1..k |-> predictions[i].predictedPrice.v]) + 7) \div 14)

\* predictPrice lines 238-253 and 276-285: the response's prediction is set,
\* then the product is saved; a save that fails is logged and the response
\* goes out all the same.
predictPriceEnhanced(forecast) ==
  \E saveOk \in BOOLEAN :
    LET p == EnhancedPrice(forecast.predictions)
    IN  /\ product' = IF saveOk
                      THEN [product EXCEPT !.predicted = TRUE, !.predictedPrice = p]
                      ELSE product
        /\ res' = [status |-> 200, branch |-> "enhanced", predictedPrice |-> p]

\* predictPrice lines 256-274 and 286-297: the prediction from the product's
\* own price, marketTrend = Math.random() * 0.4 - 0.1; the product is saved
\* before the response, a save that fails ends in 500.
predictPriceFallback(s) ==
  \E saveOk \in BOOLEAN :
    LET p == Num(RoundMulDiv(105 * RandDen + 40 * Draw(s, 0), product.price,
                             100 * RandDen, 1))
    IN  IF saveOk
        THEN /\ product' = [product EXCEPT !.predicted = TRUE, !.predictedPrice = p]
             /\ res' = [status |-> 200, branch |-> "fallback", predictedPrice |-> p]
        ELSE /\ product' = product
             /\ res' = [status |-> 500, branch |-> "fallback", predictedPrice |-> NoPrice]

\* predictPrice from line 234 on, given how forecastPrices ended.
predictPriceRest(fr, s) ==
  IF fr.threw THEN predictPriceFallback(s) ELSE predictPriceEnhanced(fr.val)

\* What a call leaves behind once fetchPriceHistory has ended in `hr` and,
\* for a forecast, forecastPrices in `fr`.  Array.prototype.sort sorts in
\* place, so a cached list is left sorted in the cache.
Return(call, src, outcome, data, cachedAt, pr, base, s, horizon, hr, fr) ==
  /\ last' = [op |-> call.op, category |-> call.category,
              arg |-> IF call.op = "history" THEN scn.days ELSE horizon,
              at |-> now, src |-> src, outcome |-> outcome, body |-> data,
              cachedAt |-> cachedAt,
              observations |-> IF pr.threw THEN <<>> ELSE pr.val,
              threw |-> hr.threw \/ fr.threw,
              history |-> IF hr.threw THEN NoHistory ELSE hr.val,
              forecast |-> IF fr.threw THEN NoForecast ELSE fr.val]
  /\ cache' = IF src \in {"cache", "upstream"} /\ ~pr.threw /\ Len(pr.val) > 0
              THEN [base EXCEPT ![call.category].data = Sorted(pr.val)]
              ELSE base
  /\ warm' = IF call.op = "history" /\ src = "cache"
             THEN [warm EXCEPT ![call.category] =
                     [valid |-> TRUE, fresh |-> TRUE,
                      hits |-> IF warm[call.category].fresh THEN 2 ELSE 1,
                      payload |-> pr.val, cachedAt |-> cachedAt,
                      dates |-> hr.val.dates, prices |-> hr.val.prices]]
             ELSE IF src = "upstream"
             THEN [warm EXCEPT ![call.category].fresh = FALSE,
                               ![call.category].hits = 0]
             ELSE warm
  /\ IF call.op = "predict" THEN predictPriceRest(fr, s)
     ELSE UNCHANGED <<product, res>>

\* forecastPrices for a forecast call, once fetchPriceHistory has ended in `hr`.
Forecast(call, src, outcome, data, cachedAt, pr, base, s, horizon, hr) ==
  Return(call, src, outcome, data, cachedAt, pr, base, s, horizon, hr,
         IF call.op \in {"forecast", "predict"}
         THEN forecastPricesCatch(forecastPricesTry(hr, call.category, horizon, now),
                                  call.category, horizon, s, now)
         ELSE Returned(NoForecast))

\* fetchPriceHistory over `days` days, once fetchAGMARKNETPrices has ended in `pr`.
History(call, src, outcome, data, cachedAt, pr, base, s, days) ==
  Forecast(call, src, outcome, data, cachedAt, pr, base, s,
           IF call.op = "predict" THEN PredictHorizon ELSE scn.horizon,
           fetchPriceHistoryCatch(
             fetchPriceHistoryTry(pr, call.category, days, s, now),
             call.category, days, s, now))

\* The rest of a call once fetchAGMARKNETPrices has its observations `pr`
\* (from the cache, the upstream `data` or the fallback): fetchPriceHistory, then
\* forecastPrices for a forecast call.
Finish(call, src, outcome, data, cachedAt, pr, base, s) ==
  History(call, src, outcome, data, cachedAt, pr, base, s,
          IF call.op = "history" THEN scn.days ELSE HistoryDays)

\* The configuration consulted before the cache: a configured source is
\* asked whatever the cache holds.
BeginUpstreamFirst(call) ==
  LET g == getFromCache(call.category)
  IN  \/ /\ g.hit /\ ~Configured
         /\ \E s \in Streams :
              Finish(call, "cache", "none", BodyNull, g.timestamp, Returned(g.data), cache, s)
         /\ UNCHANGED <<now, config, scn, pending>>
      \/ /\ ~g.hit /\ ~Configured
         /\ \E s \in Streams :
              Finish(call, "fallback", IF config.enabled THEN "nokey" ELSE "disabled",
                     BodyNull, 0,
                     Returned(FallbackPrices(call.category, s, now)), cache, s)
         /\ UNCHANGED <<now, config, scn, pending>>
      \/ /\ Configured
         /\ BagCardinality(pending) < scn.slots
         /\ pending' = pending (+) SetToBag({call})
         /\ UNCHANGED <<now, config, scn, cache, last, warm, product, res>>

\* A call up to its first await of the network: served from the cache, or
\* from getFallbackPrices when the source is not configured, or left pending
\* on its request.
Begin(call) ==
  LET g == getFromCache(call.category)
  IN  \/ /\ g.hit
         /\ \E s \in Streams :
              Finish(call, "cache", "none", BodyNull, g.timestamp, Returned(g.data), cache, s)
         /\ UNCHANGED <<now, config, scn, pending>>
      \/ /\ ~g.hit /\ ~Configured
         /\ \E s \in Streams :
              Finish(call, "fallback", IF config.enabled THEN "nokey" ELSE "disabled",
                     BodyNull, 0,
                     Returned(FallbackPrices(call.category, s, now)), cache, s)
         /\ UNCHANGED <<now, config, scn, pending>>
      \/ /\ ~g.hit /\ Configured
         /\ BagCardinality(pending) < scn.slots
         /\ pending' = pending (+) SetToBag({call})
         /\ UNCHANGED <<now, config, scn, cache, last, warm, product, res>>

\* fetchPriceHistory(category, days) is called.
fetchPriceHistory(c) ==
  /\ "history" \in scn.ops /\ c \in scn.cats
  /\ Begin([op |-> "history", category |-> c])

\* forecastPrices(category, horizonDays) is called.
forecastPrices(c) ==
  /\ "forecast" \in scn.ops /\ c \in scn.cats
  /\ Begin([op |-> "forecast", category |-> c])

\* GET /products/:id/predict is handled, predictPrice lines 218-231:
\* Product.findById gives no document (404), rejects (500) or gives the
\* product; then the forecasting module is imported, which failing the
\* prediction is made from the product's own price, and
\* forecastPrices(product.category, 7) is called.
predictPrice(c, found, imported) ==
  /\ "predict" \in scn.ops /\ c \in scn.cats
  /\ IF found # "product"
     THEN /\ res' = [status |-> IF found = "none" THEN 404 ELSE 500,
                     branch |-> "none", predictedPrice |-> NoPrice]
          /\ UNCHANGED <<now, config, scn, cache, pending, last, warm, product>>
     ELSE IF ~imported
     THEN /\ \E s \in Streams : predictPriceFallback(s)
          /\ UNCHANGED <<now, config, scn, cache, pending, last, warm>>
     ELSE Begin([op |-> "predict", category |-> c])

\* The request of a pending call ends: fetchAGMARKNETPrices lines 64-78, and
\* the rest of the call.
UpstreamResponds(call, outcome) ==
  /\ call \in BagToSet(pending)
  /\ pending' = pending (-) SetToBag({call})
  /\ LET r  == fetchAGMARKNETPricesTry(outcome, call.category, now)
     IN  \E s \in Streams :
           LET pr == fetchAGMARKNETPricesCatch(r, call.category, s, now)
           IN  Finish(call, IF r.threw THEN "fallback" ELSE "upstream", outcome.k,
                      outcome.data, now, pr,
                      fetchAGMARKNETPricesStore(r, pr, call.category), s)
  /\ UNCHANGED <<now, config, scn>>

\* Time passes.
Tick(t) ==
  /\ t > now
  /\ now' = t
  /\ UNCHANGED <<config, scn, cache, pending, last, warm, product, res>>

Calls == [op : {"history", "forecast", "predict"}, category : Categories]

Next ==
  \/ \E c \in Categories : fetchPriceHistory(c)
  \/ \E c \in Categories : forecastPrices(c)
  \/ \E c \in Categories : \E found \in {"product", "none", "error"} :
       \E imported \in BOOLEAN : predictPrice(c, found, imported)
  \/ \E call \in Calls : \E o \in Failures \cup {Ok(b) : b \in scn.bodies} :
       UpstreamResponds(call, o)
  \/ \E t \in Times : Tick(t)

Spec == Init /\ [][Next]_vars

\* The clock goes on; nothing in the code ends a request that the upstream
\* leaves unanswered (fetch is called without a timeout or an abort signal).
LiveSpec == Spec /\ WF_vars(\E t \in Times : Tick(t))

(***************************************************************************)
(* Properties.                                                             *)
(***************************************************************************)

\* C1: whatever the upstream source ends in (disabled, no key, network
\* error, non-OK status, malformed body, no records, fewer than 7 records,
\* 7 or more), fetchPriceHistory and forecastPrices complete with a value
\* and never throw to the caller.
NeverThrows ==
  last.op # "none" =>
    /\ ~last.threw
    /\ last.op = "forecast" => last.forecast.path \in {"primary", "fallback"}
NeverThrowsWitness ==
  /\ last.op = "forecast" /\ last.outcome = "ok"
  /\ last.forecast.path = "fallback" /\ ~last.threw

\* C2: for a horizon h > 0, on the primary and on the fallback path,
\* forecastPrices returns exactly h predictions, the i-th dated today + i
\* days, so the dates are strictly increasing and start tomorrow.
OnePredictionPerDay ==
  (last.op = "forecast" /\ last.arg > 0) =>
    LET preds == last.forecast.predictions
        today == last.at \div MsPerDay
    IN  /\ Len(preds) = last.arg
        /\ \A i \in 1..Len(preds) :
             preds[i].date = [k |-> "ymd", d |-> today + i, ms |-> 0]
        /\ \A i \in 1..(Len(preds) - 1) : preds[i].date.d < preds[i + 1].date.d
OnePredictionPerDayWitness ==
  /\ last.op = "forecast" /\ last.forecast.path = "primary"
  /\ Len(last.forecast.predictions) = 8
  /\ last.at = T0 + cacheExpiry

\* C3: every prediction forecastPrices returns, on the primary path for a
\* history of at least 7 non-negative prices and on the fallback path,
\* satisfies 0 <= lowerBound <= predictedPrice <= upperBound.
BoundsEnclosePrediction ==
  last.op = "forecast" =>
    \A i \in 1..Len(last.forecast.predictions) :
      LET p == last.forecast.predictions[i]
      IN  /\ ~p.lowerBound.nan /\ ~p.predictedPrice.nan /\ ~p.upperBound.nan
          /\ 0 <= p.lowerBound.v
          /\ p.lowerBound.v <= p.predictedPrice.v
          /\ p.predictedPrice.v <= p.upperBound.v

\* C4: a call with a non-positive horizon or day count ends in an error the
\* caller sees instead of a result, and no other call does.
RejectsNonPositiveArguments ==
  last.op # "none" => (last.threw <=> last.arg <= 0)

\* C5: every PriceHistory fetchPriceHistory returns, from upstream data,
\* from the cache or from the synthetic generator, has as many dates as
\* prices.
DatesMatchPrices ==
  last.op # "none" => Len(last.history.dates) = Len(last.history.prices)
DatesMatchPricesWitness ==
  /\ last.op = "history" /\ last.src = "cache" /\ last.arg = 2
  /\ Len(last.history.prices) = 2 /\ last.history.prices[1] > 0

\* C6: for days = n > 0 and every upstream outcome, the PriceHistory of
\* fetchPriceHistory(category, n) has at most n entries.
AtMostDaysEntries ==
  (last.op = "history" /\ last.arg > 0) =>
    /\ Len(last.history.dates) <= last.arg
    /\ Len(last.history.prices) <= last.arg

\* C7: once a category's observations are in the cache, two
\* fetchPriceHistory calls for it with the same days, both within the TTL
\* window, return the same dates and the same prices.
WarmCallsAgree ==
  [][\A c \in Categories :
       (/\ warm[c].valid /\ now - warm[c].cachedAt < cacheExpiry
        /\ last' # last /\ last'.op = "history" /\ last'.src = "cache"
        /\ last'.category = c /\ last'.arg > 0)
         => (warm'[c].dates = warm[c].dates /\ warm'[c].prices = warm[c].prices)]_vars
\* C7, amended: two fetchPriceHistory calls with the same days that are
\* served from the same cache entry, holding at least one observation and
\* not replaced by an upstream response between them, return the same dates
\* and the same prices.
SameEntryCallsAgree ==
  [][\A c \in Categories :
       (/\ warm[c].fresh /\ warm[c].payload # <<>>
        /\ last' # last /\ last'.op = "history" /\ last'.src = "cache"
        /\ last'.category = c)
         => (warm'[c].dates = warm[c].dates /\ warm'[c].prices = warm[c].prices)]_vars
SameEntryCallsAgreeWitness ==
  \E c \in Categories :
    /\ warm[c].fresh /\ warm[c].hits = 2 /\ Len(warm[c].payload) = 3
    /\ Len(warm[c].prices) = 2
    /\ last.op = "history" /\ last.src = "cache" /\ last.category = c
    /\ last.at > last.cachedAt

\* C8: a cached payload is returned only while less than cacheExpiry
\* (1 hour) has passed since it was stored; from then on the call goes to
\* the upstream source or its fallback.
ServedOnlyWithinExpiry ==
  last.src = "cache" => last.at - last.cachedAt < cacheExpiry
ServedOnlyWithinExpiryWitness ==
  /\ last.src = "cache" /\ last.at - last.cachedAt = cacheExpiry - 1
  /\ cache[last.category].present

\* C9: every call eventually returns, also when the upstream never answers
\* its request.  Stated for the callers that have one call in flight at a
\* time, where a request that stays pending is a call that never returns.
EveryCallReturns ==
  \A call \in Calls :
    (scn.slots = 1 /\ call \in BagToSet(pending)) ~> (call \notin BagToSet(pending))

\* C10: on the primary path the prediction at offset i is labelled 'high'
\* exactly for 1 <= i <= 7, 'medium' exactly for 7 < i <= 30 and 'low'
\* exactly for i > 30.
ConfidenceBands ==
  last.forecast.path = "primary" =>
    \A i \in 1..Len(last.forecast.predictions) :
      LET label == last.forecast.predictions[i].confidence
      IN  /\ (label = "high") <=> (1 <= i /\ i <= 7)
          /\ (label = "medium") <=> (7 < i /\ i <= 30)
          /\ (label = "low") <=> (i > 30)
ConfidenceBandsWitness ==
  /\ last.forecast.path = "primary"
  /\ Len(last.forecast.predictions) > 30
  /\ last.forecast.predictions[31].confidence = "low"

\* C11: on the primary path the width upperBound - lowerBound of the
\* prediction at offset i is at most the width at every later offset j, also
\* when lowerBound is clamped at 0 and when the trend falls.
WidthsNeverShrink ==
  last.forecast.path = "primary" =>
    LET preds == last.forecast.predictions
    IN  \A i, j \in 1..Len(preds) :
          i < j =>
            /\ ~preds[i].upperBound.nan /\ ~preds[i].lowerBound.nan
            /\ ~preds[j].upperBound.nan /\ ~preds[j].lowerBound.nan
            /\ preds[i].upperBound.v - preds[i].lowerBound.v
                 <= preds[j].upperBound.v - preds[j].lowerBound.v

\* C12: when the earliest 7 prices of a returned history have mean 0,
\* changePercent is 0 and trend is 'stable'.
ZeroOldMeanIsStable ==
  LET prices == last.history.prices
      n      == Len(prices)
  IN  (last.op # "none" /\ n > 0 /\ \A j \in 1..Min(7, n) : prices[j] = 0) =>
        /\ last.history.changePercent = [k |-> "fin", c |-> 0]
        /\ last.history.trend = "stable"

\* C13: for a returned history of n prices whose first min(7, n) prices do
\* not sum to 0, changePercent is 100 * (mean of the last min(7, n) prices
\* - mean of the first min(7, n)) / mean of the first min(7, n), rounded to
\* two decimals, and trend is 'up' exactly when that change is above 5,
\* 'down' exactly when it is below -5, 'stable' otherwise; the 90-point
\* ramp from 100 to 150 gives 'up'.
ChangeIsRelativeMeanShift ==
  LET prices == last.history.prices
      n      == Len(prices)
      k      == Min(7, n)
      old    == SumSeq(SubSeq(prices, 1, k))
      recent == SumSeq(SubSeq(prices, n - k + 1, n))
      num    == IF old > 0 THEN recent - old ELSE old - recent
      den    == Abs(old)
      cp     == last.history.changePercent
  IN  (last.op # "none" /\ old # 0) =>
        /\ cp.k = "fin"
        /\ 2 * cp.c * den <= 20000 * num + den
        /\ 20000 * num + den < 2 * (cp.c + 1) * den
        /\ (last.history.trend = "up") <=> (100 * num > 5 * den)
        /\ (last.history.trend = "down") <=> (100 * num < -5 * den)
        /\ last.history.trend \in {"up", "down", "stable"}
        /\ (n = 90 /\ \A j \in 1..n : prices[j] = Whole(8900 + 50 * (j - 1)))
             => last.history.trend = "up" /\ cp.c > 500
ChangeIsRelativeMeanShiftWitness ==
  /\ last.op = "history" /\ last.src = "upstream" /\ last.body = BodyRamp
  /\ Len(last.history.prices) = 90
  /\ last.history.prices[1] = Whole(8900) /\ last.history.prices[90] = Whole(13350)
  /\ last.history.trend = "up"

\* C14: when the history forecastPrices obtains has fewer than 7 prices (the
\* upstream returned 1 to 6 records), it returns the fallback forecast and
\* does not throw: horizonDays predictions, 'medium' for i <= 7 and 'low'
\* beyond, lowerBound = round(0.9 * predictedPrice), upperBound =
\* round(1.1 * predictedPrice), currentPrice the category's base price (500
\* for a category not in the table) and an insight saying that simulated
\* data is used.
ShortHistoryFallsBack ==
  (last.op = "forecast" /\ Len(last.history.prices) < 7) =>
    LET f == last.forecast
    IN  /\ ~last.threw /\ f.path = "fallback"
        /\ Len(f.predictions) = Max(0, last.arg)
        /\ \A i \in 1..Len(f.predictions) :
             LET p == f.predictions[i]
             IN  /\ p.confidence = (IF i <= 7 THEN "medium" ELSE "low")
                 /\ ~p.predictedPrice.nan /\ ~p.lowerBound.nan /\ ~p.upperBound.nan
                 /\ 20 * p.lowerBound.v <= 18 * p.predictedPrice.v + 10
                 /\ 18 * p.predictedPrice.v + 10 < 20 * (p.lowerBound.v + 1)
                 /\ 20 * p.upperBound.v <= 22 * p.predictedPrice.v + 10
                 /\ 22 * p.predictedPrice.v + 10 < 20 * (p.upperBound.v + 1)
        /\ f.currentPrice = Whole(IF last.category = "spices" THEN 150 ELSE 500)
        /\ \E k \in 1..Len(f.insights) :
             f.insights[k].text = "Using simulated data for forecasting."
ShortHistoryFallsBackWitness ==
  /\ last.op = "forecast" /\ last.src = "upstream" /\ Len(last.observations) = 3
  /\ Len(last.history.prices) = 3 /\ last.forecast.path = "fallback"
  /\ Len(last.forecast.predictions) = 8
  /\ last.forecast.predictions[8].confidence = "low"

\* C15: when the upstream source is not configured (disabled or without an
\* API key), forecastPrices(category, 7) does not throw and returns exactly
\* 7 predictions, a trend in {up, down, stable} and a currentPrice within
\* 15% of the category's base price (150 for 'spices', 1500 for 'Jewelry').
UnconfiguredForecast ==
  (~Configured /\ last.op = "forecast" /\ last.arg = 7) =>
    LET f    == last.forecast
        base == IF last.category = "spices" THEN 150 ELSE 1500
    IN  /\ ~last.threw
        /\ Len(f.predictions) = 7
        /\ f.trend \in {"up", "down", "stable"}
        /\ 100 * Abs(f.currentPrice - Whole(base)) <= 15 * Whole(base)
UnconfiguredForecastWitness ==
  /\ ~Configured /\ last.op = "forecast" /\ last.arg = 7
  /\ last.category = "Jewelry" /\ last.src = "fallback"
  /\ Len(last.observations) = 30 /\ last.forecast.path = "primary"
  /\ last.forecast.currentPrice < Whole(1500)

\* C16: for a history of at least 7 prices that are all the same positive
\* number, every prediction has predictedPrice equal to that number and
\* lowerBound = upperBound = predictedPrice.
FlatHistoryFlatForecast ==
  LET ps == last.history.prices
  IN  (/\ last.op = "forecast" /\ last.arg > 0 /\ Len(ps) >= 7
       /\ ps[1] > 0 /\ \A j \in 1..Len(ps) : ps[j] = ps[1]) =>
        /\ ~last.threw /\ last.forecast.path = "primary"
        /\ Len(last.forecast.predictions) = last.arg
        /\ \A i \in 1..Len(last.forecast.predictions) :
             LET p == last.forecast.predictions[i]
             IN  /\ ~p.predictedPrice.nan /\ Whole(p.predictedPrice.v) = ps[1]
                 /\ p.lowerBound = p.predictedPrice
                 /\ p.upperBound = p.predictedPrice
\* C16, amended: for a history of at least 7 prices that are all the same
\* positive number, a whole number or a whole number and a half, every
\* prediction has predictedPrice equal to Math.round of that number (the
\* number itself when it is whole, the next whole number above it when it
\* is not) and lowerBound = upperBound = predictedPrice.
FlatHistoryRoundedForecast ==
  LET ps == last.history.prices
  IN  (/\ last.op = "forecast" /\ last.arg > 0 /\ Len(ps) >= 7
       /\ ps[1] > 0 /\ \A j \in 1..Len(ps) : ps[j] = ps[1]) =>
        /\ ~last.threw /\ last.forecast.path = "primary"
        /\ Len(last.forecast.predictions) = last.arg
        /\ \A i \in 1..Len(last.forecast.predictions) :
             LET p == last.forecast.predictions[i]
             IN  /\ ~p.predictedPrice.nan
                 /\ Whole(p.predictedPrice.v) \in {ps[1], ps[1] + 1}
                 /\ p.lowerBound = p.predictedPrice
                 /\ p.upperBound = p.predictedPrice
FlatHistoryRoundedForecastWitness ==
  /\ last.op = "forecast" /\ last.src = "upstream" /\ last.body = BodyHalf
  /\ Len(last.history.prices) = 7
  /\ \A j \in 1..7 : 2 * last.history.prices[j] = 201 * PriceDen
  /\ Len(last.forecast.predictions) = 7
  /\ \A i \in 1..7 : /\ last.forecast.predictions[i].predictedPrice = Num(101)
                     /\ last.forecast.predictions[i].upperBound = Num(101)
                     /\ last.forecast.predictions[i].lowerBound = Num(101)

\* C17: the synthetic generator produces exactly N daily observations with
\* consecutive distinct dates ending today: N = 30 from getFallbackPrices
\* and N = days from generateMockHistory(category, days).
SyntheticCounts ==
  LET today == last.at \div MsPerDay
      days  == IF last.op = "history" THEN last.arg ELSE HistoryDays
      obs   == last.observations
      dates == last.history.dates
  IN  /\ last.src = "fallback" =>
           /\ Len(obs) = 30
           /\ \A j \in 1..Len(obs) : obs[j].date = Ymd(today - (j - 1))
      /\ (last.op # "none" /\ obs = <<>> /\ days > 0) =>
           /\ Len(dates) = days
           /\ \A j \in 1..Len(dates) : dates[j] = Ymd(today - (Len(dates) - j))

\* C18: under every interleaving of calls for two categories, a step
\* changes the cache entry (data or timestamp) of a category only when the
\* call that returns in it is for that category, and the observations a call
\* gets are all observations of its own category.
CategoriesDoNotInterfere ==
  /\ [][\A c \in Categories : cache'[c] # cache[c] => last'.category = c]_vars
  /\ [](\A j \in 1..Len(last.observations) :
          last.observations[j].category = last.category)
CategoriesDoNotInterfereWitness ==
  /\ scn.cats = Categories
  /\ cache["Jewelry"].present /\ cache["spices"].present
  /\ cache["Jewelry"].timestamp < cache["spices"].timestamp
  /\ last.category = "spices" /\ last.src = "upstream" /\ last.observations # <<>>
  /\ BagToSet(pending) = {[op |-> "history", category |-> "Jewelry"]}

\* C19: two calls for one category that both miss the cache each have their
\* own request and each gets the payload of its own response; each response
\* replaces the cache entry, so after both the cache holds the payload of
\* the response that came last; and a call served from the cache gets the
\* payload the cache holds.
LastResponseWins ==
  [][(last' # last /\ last'.src = "upstream") =>
        (LET c == last'.category
         IN  /\ BagCardinality(pending') = BagCardinality(pending) - 1
             /\ last'.observations = Parsed(last'.body, c, last'.at)
             /\ cache'[c].present /\ cache'[c].timestamp = last'.at
             /\ cache'[c].data = SortedTable[last'.observations])]_vars
  /\ [][(last' # last /\ last'.src = "cache") =>
          /\ last'.observations = cache[last'.category].data
          /\ last'.cachedAt = cache[last'.category].timestamp
          /\ pending' = pending]_vars
LastResponseWinsWitness ==
  LET c == last.category
  IN  /\ scn.slots = MaxInflight /\ pending = EmptyBag
      /\ last.src = "upstream"
      /\ warm[c].valid /\ ~warm[c].fresh
      /\ last.at - warm[c].cachedAt < cacheExpiry
      /\ Len(warm[c].payload) = 3 /\ Len(last.observations) = 2
      /\ cache[c].data = SortedTable[last.observations]
      /\ cache[c].data # warm[c].payload

\* C20: whenever the upstream source returns fewer than 7 observations (0 to
\* 6) or is not configured, the PriceHistory fetchPriceHistory returns is
\* built from data of the synthetic generator, not from upstream
\* observations.
FewObservationsGiveSynthetic ==
  (/\ last.op = "history"
   /\ \/ ~Configured
      \/ last.src \in {"upstream", "cache"} /\ Len(last.observations) < 7) =>
    \A j \in 1..Len(last.observations) :
      last.observations[j].source = "Simulated Data"
\* C20, amended: the PriceHistory of fetchPriceHistory is built from the 30
\* observations of getFallbackPrices when the source is not configured or
\* its request fails, and by generateMockHistory when the upstream (or the
\* cache) gives zero observations; 1 to 6 upstream observations are used as
\* they are, like 7 or more.
OnlyEmptyGivesSynthetic ==
  last.op = "history" =>
    LET obs == last.observations
    IN  /\ (~Configured \/ last.src = "fallback") =>
             /\ last.src = "fallback" /\ Len(obs) = FallbackCount
             /\ \A j \in 1..Len(obs) : obs[j].source = "Simulated Data"
             /\ last.history = PriceHistoryOf(obs, last.arg)
        /\ (last.src \in {"upstream", "cache"} /\ obs = <<>>) =>
             \E s \in Streams :
               last.history = MockHistory(last.category, last.arg, s, last.at)
        /\ (last.src \in {"upstream", "cache"} /\ obs # <<>>) =>
             /\ \A j \in 1..Len(obs) : obs[j].source = "AGMARKNET"
             /\ last.history = PriceHistoryOf(obs, last.arg)
OnlyEmptyGivesSyntheticWitness ==
  /\ last.op = "history" /\ last.src = "upstream" /\ last.arg = 2
  /\ Len(last.observations) = 3
  /\ \A j \in 1..3 : last.observations[j].source = "AGMARKNET"
  /\ last.history.prices = <<Whole(20), Whole(30)>>
  /\ last.history.dates = <<Ymd(17), Ymd(18)>>

\* C21: on the primary path (a history of at least 7 prices) currentPrice is
\* the last price of the history the forecast was computed from and trend is
\* that history's trend; on the fallback path currentPrice is the category's
\* base price and trend is 'stable'.
ForecastHeadline ==
  last.op = "forecast" =>
    LET f == last.forecast
        h == last.history
    IN  /\ f.path = (IF Len(h.prices) >= 7 THEN "primary" ELSE "fallback")
        /\ f.path = "primary" =>
             f.currentPrice = h.prices[Len(h.prices)] /\ f.trend = h.trend
        /\ f.path = "fallback" =>
             /\ f.currentPrice = Whole(IF last.category = "spices" THEN 150 ELSE 500)
             /\ f.trend = "stable"
ForecastHeadlineWitness ==
  /\ last.op = "forecast" /\ last.forecast.path = "primary"
  /\ last.history.trend = "down" /\ last.forecast.trend = "down"
  /\ last.forecast.currentPrice # last.history.prices[1]
  /\ last.forecast.currentPrice = last.history.prices[Len(last.history.prices)]

\* C22: on the primary path the insights are 2 to 4 entries in this order:
\* one trend narrative, that of history.trend; the near-term narrative if
\* there is one; the festival note exactly when the month is October or
\* November; and last the closing note citing history.dates.length days.
InsightsInOrder ==
  last.forecast.path = "primary" =>
    LET ins      == last.forecast.insights
        n        == Len(ins)
        h        == last.history
        upText   == "Prices are trending upward. Consider increasing your prices gradually."
        downText == "Prices are trending downward. Focus on value-added features or promotions."
        flatText == "Prices are stable. Good time to maintain consistent pricing."
        nearText == {"Next week's forecast shows potential 5-7% price increase. Good time to stock up on materials.",
                     "Next week's forecast shows potential price decrease. Consider promotional campaigns."}
        festText == "Festival season ahead! Demand typically increases 20-30% during this period."
        lastText == "Based on days of market data from multiple sources."
        festive  == (last.at \div MsPerDay) >= OctoberFirst
    IN  /\ 2 <= n /\ n <= 4
        /\ ins[1].text = (IF h.trend = "up" THEN upText
                          ELSE IF h.trend = "down" THEN downText ELSE flatText)
        /\ h.trend # "stable" => ins[1].percent = h.changePercent
        /\ \A i \in 2..n : ins[i].text \notin {upText, downText, flatText}
        /\ ins[n].text = lastText /\ ins[n].days = Len(h.dates)
        /\ \A i \in 1..(n - 1) : ins[i].text # lastText
        /\ festive <=> (n >= 3 /\ ins[n - 1].text = festText
                          /\ ins[n - 1].category = last.category)
        /\ \A i \in 1..n : ins[i].text = festText => i = n - 1
        /\ \A i \in 1..n : ins[i].text \in nearText => i = 2
        /\ \A i \in 2..(n - 1) : ins[i].text \in nearText \cup {festText}
InsightsInOrderWitness ==
  /\ last.forecast.path = "primary" /\ last.src = "upstream"
  /\ Len(last.forecast.insights) = 4
  /\ last.history.trend = "up"
  /\ last.forecast.insights[1].percent = last.history.changePercent
  /\ last.forecast.insights[3].category = last.category
  /\ last.forecast.insights[4].days = 8

\* C23: for every horizon h >= 1, also h < 7, the near-term insight follows
\* the mean of the first min(7, h) predicted prices against currentPrice
\* (positive here): the stock-up insight exactly when the relative change is
\* above +5%, the promotional-campaign insight exactly when it is below -5%,
\* none otherwise.
NearTermFollowsMean ==
  LET f   == last.forecast
      ins == f.insights
      k   == Min(7, Len(f.predictions))
      sum == SumSeq([i \in 1..k |-> f.predictions[i].predictedPrice.v])
      cur == f.currentPrice
      num == 100 * (PriceDen * sum - k * cur)
      stockUp == \E i \in 1..Len(ins) :
                   ins[i].text = "Next week's forecast shows potential 5-7% price increase. Good time to stock up on materials."
      promo   == \E i \in 1..Len(ins) :
                   ins[i].text = "Next week's forecast shows potential price decrease. Consider promotional campaigns."
  IN  (/\ f.path = "primary" /\ last.arg >= 1 /\ cur > 0
       /\ \A i \in 1..k : ~f.predictions[i].predictedPrice.nan) =>
        /\ stockUp <=> num > 5 * k * cur
        /\ promo <=> num < -5 * k * cur

\* C24: the dates of every PriceHistory fetchPriceHistory returns are in
\* non-decreasing chronological order, whatever the upstream payload (any
\* order of records, any Price_Date text, records without a date) and on
\* the synthetic path: of two dates that are dates, the earlier comes first.
DatesInOrder ==
  last.op # "none" =>
    LET dates == last.history.dates
    IN  \A i, j \in 1..Len(dates) :
          (i < j /\ dates[i].k # "bad" /\ dates[j].k # "bad") =>
            \/ dates[i].d < dates[j].d
            \/ dates[i].d = dates[j].d /\ dates[i].ms <= dates[j].ms

\* C25: every price that reaches a caller is at least 0: the modalPrice of
\* every observation of parseAGMARKNETResponse and getFallbackPrices, and
\* every value of PriceHistory.prices.
PricesNotNegative ==
  /\ \A j \in 1..Len(last.observations) : last.observations[j].modalPrice >= 0
  /\ \A j \in 1..Len(last.history.prices) : last.history.prices[j] >= 0

\* C26: the number of entries the price cache holds stays under a fixed
\* threshold however many distinct categories are fetched: with every
\* category fetched, at least one entry has been dropped.
CacheStaysSmall ==
  Cardinality({c \in Categories : cache[c].present}) < Cardinality(Categories)

\* C27: the cache is written only when an upstream request returned an OK
\* response that was parsed: an entry is stored or re-stamped only by such a
\* return, for its own category; a call that ends in the disabled,
\* missing-key, network-error or non-OK branch leaves the whole cache as it
\* was, so the observations of getFallbackPrices are never cached.
CacheWrittenOnlyOnOk ==
  [][/\ last'.src = "fallback" => cache' = cache
     /\ \A c \in Categories :
          (cache'[c].present # cache[c].present
             \/ cache'[c].timestamp # cache[c].timestamp) =>
            /\ last'.src = "upstream" /\ last'.outcome = "ok" /\ last'.category = c
            /\ cache'[c].present /\ cache'[c].timestamp = now
     /\ \A c \in Categories : \A j \in 1..Len(cache'[c].data) :
          cache'[c].data[j].source = "AGMARKNET"]_vars
CacheWrittenOnlyOnOkWitness ==
  /\ last.src = "fallback" /\ last.outcome = "notok" /\ Len(last.observations) = 30
  /\ ~cache[last.category].present
  /\ \E c \in Categories : cache[c].present /\ cache[c].data # <<>>

\* C28: the cache is looked up before the configuration and the upstream:
\* while the entry of a category is younger than cacheExpiry, a call for
\* that category sends no request and returns the entry's payload, whatever
\* the upstream would answer now.  (The configuration is read from the
\* environment when the process starts and no code changes it afterwards, so
\* a source cannot turn disabled or lose its key under a stored entry.)
CacheAnswersFirst ==
  [][\A c \in Categories :
       (cache[c].present /\ now - cache[c].timestamp < cacheExpiry) =>
         /\ \A call \in Calls :
              call.category = c => CopiesIn(call, pending') <= CopiesIn(call, pending)
         /\ (pending' = pending /\ last' # last /\ last'.category = c) =>
              /\ last'.src = "cache" /\ last'.at = now
              /\ last'.observations = cache[c].data
              /\ last'.cachedAt = cache[c].timestamp]_vars
CacheAnswersFirstWitness ==
  /\ last.op = "forecast" /\ last.src = "cache" /\ last.at > last.cachedAt
  /\ last.forecast.path = "primary" /\ Len(last.observations) >= 7
  /\ Configured /\ pending = EmptyBag

\* C29: an OK response that parses to no observations is stored and served
\* as a hit: while that entry is younger than cacheExpiry no request is sent
\* for its category, and every call takes the synthetic history
\* (generateMockHistory), drawn anew at the call.
EmptyPayloadIsAHit ==
  [][\A c \in Categories :
       (cache[c].present /\ cache[c].data = <<>>
          /\ now - cache[c].timestamp < cacheExpiry) =>
         /\ \A call \in Calls :
              call.category = c => CopiesIn(call, pending') <= CopiesIn(call, pending)
         /\ (pending' = pending /\ last' # last /\ last'.category = c) =>
              /\ last'.src = "cache" /\ last'.observations = <<>>
              /\ \E s \in Streams :
                   last'.history =
                     MockHistory(c, IF last'.op = "history" THEN scn.days ELSE HistoryDays,
                                 s, now)]_vars
EmptyPayloadIsAHitWitness ==
  \E c \in Categories :
    /\ warm[c].fresh /\ warm[c].hits = 2 /\ warm[c].payload = <<>>
    /\ last.op = "history" /\ last.src = "cache" /\ last.category = c
    /\ last.observations = <<>> /\ cache[c].data = <<>>
    /\ last.history = MockHistory(c, scn.days, "hi", last.at)
    /\ Len(last.history.prices) = 3

\* C30: whenever predictPrice has answered 200, the predictedPrice stored on
\* the product is the predictedPrice of that response, also when the
\* forecast was made and product.save() failed.
PersistedIsAnswered ==
  res.status = 200 => product.predicted /\ product.predictedPrice = res.predictedPrice

=============================================================================
